---- MODULE Spec2Model ----
(***************************************************************************)
(* A model of the wapi cache (src/src/api/cache.rs): the in-memory Cache   *)
(* struct, its formatting pass fmt, the credential operations              *)
(* add_dns_provider / remove_dns_provider, and load / save against the     *)
(* cache file <home>/wapi/cache.json.                                      *)
(*                                                                         *)
(* Strings that the code only compares (ids, keys, metadata texts) are     *)
(* TLA+ strings.  Strings that the code parses (the two IP addresses) are  *)
(* sequences of one-character strings, so that the parsers below read      *)
(* them character by character.  A timestamp string is <<>> (the empty     *)
(* string) or <<t>>, the formatted instant t in milliseconds.              *)
(***************************************************************************)
EXTENDS Integers, Sequences, FiniteSets, TLC

VARIABLES
    cache,   \* the Cache instance the caller holds
    origin,  \* how that instance was obtained: "new", "load" or "given"
    calls,   \* the methods called on that instance since it was obtained
    fs,      \* the file system: [dir: wapi directory exists, file: NoFile or a text]
    now,     \* the local clock, in milliseconds
    last,    \* the last operation: its name, inputs, result and the state before it
    trip     \* the load and save calls in progress: see TripAfterLoad, TripAfterSave

vars == <<cache, origin, calls, fs, now, last, trip>>

(***************************************************************************)
(* Bounds of the model.                                                    *)
(***************************************************************************)
\* The last instant of the clock.
MaxTime == 1

\* The most methods called on one Cache instance in SpecMut and SpecFmt.
MaxCalls == 3

\* The most methods called on one Cache instance in Spec.
MaxLifeCalls == 2

\* The most calls of add_dns_provider in SpecAdd.
MaxAdds == 4

\* The longest provider list of a given Cache (SpecFmt).
MaxLen == 3

\* The most methods called on one given Cache in SpecGiven.
MaxGivenCalls == 1

(***************************************************************************)
(* Characters and numbers: core::net::parser as used by                    *)
(* str::parse::<Ipv4Addr>() and str::parse::<Ipv6Addr>().                  *)
(***************************************************************************)
DecDigits == {"0", "1", "2", "3", "4", "5", "6", "7", "8", "9"}

HexDigits == DecDigits \cup {"a", "b", "c", "d", "e", "f", "A", "B", "C", "D", "E", "F"}

DigitValue(c) ==
    CASE c = "0" -> 0 [] c = "1" -> 1 [] c = "2" -> 2 [] c = "3" -> 3
      [] c = "4" -> 4 [] c = "5" -> 5 [] c = "6" -> 6 [] c = "7" -> 7
      [] c = "8" -> 8 [] c = "9" -> 9
      [] c \in {"a", "A"} -> 10 [] c \in {"b", "B"} -> 11
      [] c \in {"c", "C"} -> 12 [] c \in {"d", "D"} -> 13
      [] c \in {"e", "E"} -> 14 [] c \in {"f", "F"} -> 15

IsDigit(c, radix) == IF radix = 10 THEN c \in DecDigits ELSE c \in HexDigits

\* The character at position pos is ch (read_given_char).
HasChar(s, pos, ch) == pos >= 1 /\ pos <= Len(s) /\ s[pos] = ch

\* The number of consecutive digits of the radix from position pos on.
RECURSIVE DigitRun(_, _, _)
DigitRun(s, pos, radix) ==
    IF pos <= Len(s) /\ IsDigit(s[pos], radix)
    THEN 1 + DigitRun(s, pos + 1, radix)
    ELSE 0

\* The value of the n digits from position pos on.
RECURSIVE NumberValue(_, _, _, _)
NumberValue(s, pos, n, radix) ==
    IF n = 0 THEN 0
    ELSE NumberValue(s, pos, n - 1, radix) * radix + DigitValue(s[pos + n - 1])

\* read_number: the position after the number, or 0 when none is read.  It
\* reads every digit there is and fails on more than maxDigits digits, on a
\* value above maxValue (checked_mul / checked_add of the integer type), and,
\* unless allowed, on a zero prefix.
ReadNumber(s, pos, radix, maxDigits, allowZeroPrefix, maxValue) ==
    LET n == DigitRun(s, pos, radix)
    IN  IF n = 0 \/ n > maxDigits THEN 0
        ELSE IF NumberValue(s, pos, n, radix) > maxValue THEN 0
        ELSE IF ~allowZeroPrefix /\ s[pos] = "0" /\ n > 1 THEN 0
        ELSE pos + n

\* read_separator: the separator is read before every group but the first.
ReadSeparator(s, pos, sep, index) ==
    IF index = 0 THEN pos
    ELSE IF HasChar(s, pos, sep) THEN pos + 1
    ELSE 0

\* read_ipv4_addr from group index on: four decimal groups separated by dots.
RECURSIVE ReadIpv4Groups(_, _, _)
ReadIpv4Groups(s, pos, index) ==
    IF index = 4 THEN pos
    ELSE LET p == ReadSeparator(s, pos, ".", index)
             q == IF p = 0 THEN 0 ELSE ReadNumber(s, p, 10, 3, FALSE, 255)
         IN  IF q = 0 THEN 0 ELSE ReadIpv4Groups(s, q, index + 1)

ReadIpv4Addr(s, pos) == ReadIpv4Groups(s, pos, 0)

\* read_groups of read_ipv6_addr: [size, ipv4, pos], the number of 16-bit
\* groups read, whether an embedded IPv4 address ended them, and the position
\* after them.
RECURSIVE ReadGroups(_, _, _, _)
ReadGroups(s, pos, limit, index) ==
    IF index >= limit THEN [size |-> limit, ipv4 |-> FALSE, pos |-> pos]
    ELSE LET sp == ReadSeparator(s, pos, ":", index)
             v4 == IF index < limit - 1 /\ sp # 0 THEN ReadIpv4Addr(s, sp) ELSE 0
             gp == IF sp = 0 THEN 0 ELSE ReadNumber(s, sp, 16, 4, TRUE, 65535)
         IN  IF v4 # 0 THEN [size |-> index + 2, ipv4 |-> TRUE, pos |-> v4]
             ELSE IF gp = 0 THEN [size |-> index, ipv4 |-> FALSE, pos |-> pos]
             ELSE ReadGroups(s, gp, limit, index + 1)

\* read_ipv6_addr: eight groups, or a head, "::" and a tail of at most
\* 7 - head groups; an embedded IPv4 address is not allowed before "::".
ReadIpv6Addr(s, pos) ==
    LET head == ReadGroups(s, pos, 8, 0)
    IN  IF head.size = 8 THEN head.pos
        ELSE IF head.ipv4 THEN 0
        ELSE IF ~(HasChar(s, head.pos, ":") /\ HasChar(s, head.pos + 1, ":")) THEN 0
        ELSE ReadGroups(s, head.pos + 2, 8 - (head.size + 1), 0).pos

\* str::parse::<Ipv4Addr>() is Ok: at most 15 characters, all of them read as
\* one IPv4 address.
IsValidIpv4(s) == Len(s) <= 15 /\ ReadIpv4Addr(s, 1) = Len(s) + 1

\* str::parse::<Ipv6Addr>() is Ok: all characters are read as one IPv6 address.
IsValidIpv6(s) == ReadIpv6Addr(s, 1) = Len(s) + 1

(***************************************************************************)
(* Address strings of the model.                                           *)
(***************************************************************************)
DefaultIpv4 == <<"0", ".", "0", ".", "0", ".", "0">>

DefaultIpv6 == <<"0", ":", "0", ":", "0", ":", "0", ":", "0", ":", "0", ":", "0", ":", "0">>

EmptyString == <<>>

NotAnIp == <<"n", "o", "t", "-", "a", "n", "-", "i", "p">>

Ipv4Strings ==
    { DefaultIpv4,
      EmptyString,
      NotAnIp,
      <<"1", "9", "2", ".", "1", "6", "8", ".", "1", ".", "7">>,
      <<"2", "5", "5", ".", "2", "5", "5", ".", "2", "5", "5", ".", "2", "5", "5">>,
      <<"2", "5", "6", ".", "1", ".", "1", ".", "1">>,
      <<"1", ".", "2", ".", "3">>,
      <<"1", ".", "2", ".", "3", ".", "4", ".", "5">>,
      <<"0", "1", ".", "2", ".", "3", ".", "4">>,
      <<"1", ".", "2", ".", "3", ".", "4", " ">>,
      <<":", ":", "1">> }

Ipv6Strings ==
    { DefaultIpv6,
      EmptyString,
      NotAnIp,
      <<":", ":">>,
      <<":", ":", "1">>,
      <<"f", "e", "8", "0", ":", ":", "A", "b", ":", "1">>,
      <<"1", ":", "2", ":", "3", ":", "4", ":", "5", ":", "6", ":", "7">>,
      <<"1", ":", "2", ":", "3", ":", "4", ":", "5", ":", "6", ":", "7", ":", ":">>,
      <<"1", ":", "2", ":", "3", ":", "4", ":", "5", ":", "6", ":", "7", ":", "8", ":", ":">>,
      <<"1", ":", ":", "2", ":", ":", "3">>,
      <<"1", "2", "3", "4", "5", ":", ":", "1">>,
      <<"g", ":", ":", "1">>,
      <<":", ":", "f", "f", "f", "f", ":", "1", ".", "2", ".", "3", ".", "4">>,
      <<"1", ".", "2", ".", "3", ".", "4", ":", ":">>,
      <<"1", ".", "2", ".", "3", ".", "4">> }

(***************************************************************************)
(* The Cache struct and fmt.                                               *)
(***************************************************************************)
\* The ids that the match of fmt recognizes.
Whitelist ==
    { "alibabacloud", "bluehost", "cloudflare", "dnspod", "dreamhost", "dynadot",
      "enom", "epik", "gandi", "godaddy", "hover", "ionos", "namecheap",
      "namesilo", "opensrs", "ovh", "porkbun", "resellerclub" }

MetadataWarning == "THIS FILE IS AUTO-GENERATED. DO NOT EDIT MANUALLY. IF THE FILE IS TAMPERED WITH, IT WILL BE OVERWRITTEN WITH DEFAULT DATA, AND ALL PREVIOUS DATA WILL BE LOST."

MetadataName == "wapi-cache"

\* env!("CARGO_PKG_VERSION"): the version of the running program.
MetadataVersion == "CARGO_PKG_VERSION"

MetadataDescription == "The cache file for the Wapi client."

MetadataHomepage == "https://github.com/AmonRayfa/wapi"

\* Local::now().format("%Y-%m-%d %H:%M:%S%.3f").to_string() at instant t: a
\* non-empty string that names the millisecond.
FormatTimestamp(t) == <<t>>

DNSProvider(id, api_key, secret_api_key) ==
    [id |-> id, api_key |-> api_key, secret_api_key |-> secret_api_key]

\* Vec::reverse.
Reverse(s) == [i \in 1..Len(s) |-> s[Len(s) + 1 - i]]

\* RetainClosure without the HashSet: every recognized id is kept.
RetainClosureAnyRecognized(p, filtered_providers) == p.id \in Whitelist

\* RetainClosure whose last arm is true: an unrecognized id is kept.
RetainClosureKeepsUnrecognized(p, filtered_providers) ==
    p.id \notin Whitelist \/ p.id \notin filtered_providers

\* The closure given to retain in fmt, on a provider p with the set
\* filtered_providers as it is: HashSet::insert of a recognized id is true
\* when the id was not in the set; any other id gives false.
RetainClosure(p, filtered_providers) ==
    p.id \in Whitelist /\ p.id \notin filtered_providers

\* Vec::retain with that closure: the providers are visited in order, and
\* each recognized id is inserted into filtered_providers when visited.
RECURSIVE RetainProviders(_, _)
RetainProviders(providers, filtered_providers) ==
    IF providers = <<>> THEN <<>>
    ELSE LET p == Head(providers)
             inserted == IF p.id \in Whitelist
                         THEN filtered_providers \cup {p.id}
                         ELSE filtered_providers
         IN  (IF RetainClosure(p, filtered_providers) THEN <<p>> ELSE <<>>)
                 \o RetainProviders(Tail(providers), inserted)

\* FmtProviders without the two calls of reverse: the first provider of an
\* id is kept.
FmtProvidersFirstKept(providers) == RetainProviders(providers, {})

\* FmtProviders without the second call of reverse.
FmtProvidersLeftReversed(providers) == RetainProviders(Reverse(providers), {})

\* Lines 98-122 of fmt: reverse, retain, reverse.
FmtProviders(providers) == Reverse(RetainProviders(Reverse(providers), {}))

\* FmtIpv4 that replaces the address whether it is valid or not.
FmtIpv4Reset(ipv4_address) == DefaultIpv4

\* Lines 86-90 of fmt.
FmtIpv4(ipv4_address) ==
    IF IsValidIpv4(ipv4_address) THEN ipv4_address ELSE DefaultIpv4

\* FmtIpv6 that replaces the address whether it is valid or not.
FmtIpv6Reset(ipv6_address) == DefaultIpv6

\* Lines 92-96 of fmt.
FmtIpv6(ipv6_address) ==
    IF IsValidIpv6(ipv6_address) THEN ipv6_address ELSE DefaultIpv6

\* Lines 79-84 and 124-125 of fmt.
FmtMetadata(t) ==
    [ warning |-> MetadataWarning,
      name |-> MetadataName,
      version |-> MetadataVersion,
      description |-> MetadataDescription,
      homepage |-> MetadataHomepage,
      timestamp |-> FormatTimestamp(t) ]

\* fmt that writes the metadata only where the name is empty.
FmtKeepingMetadata(c, t) ==
    [ metadata |-> IF c.metadata.name = "" THEN FmtMetadata(t) ELSE c.metadata,
      data |-> [ ipv4_address |-> FmtIpv4(c.data.ipv4_address),
                 ipv6_address |-> FmtIpv6(c.data.ipv6_address),
                 dns_providers |-> FmtProviders(c.data.dns_providers) ] ]

\* Cache::fmt called at instant t.
Fmt(c, t) ==
    [ metadata |-> FmtMetadata(t),
      data |-> [ ipv4_address |-> FmtIpv4(c.data.ipv4_address),
                 ipv6_address |-> FmtIpv6(c.data.ipv6_address),
                 dns_providers |-> FmtProviders(c.data.dns_providers) ] ]

\* The struct that Cache::new builds before it calls fmt.
EmptyCache ==
    [ metadata |-> [ warning |-> "", name |-> "", version |-> "",
                     description |-> "", homepage |-> "", timestamp |-> <<>> ],
      data |-> [ ipv4_address |-> <<>>, ipv6_address |-> <<>>,
                 dns_providers |-> <<>> ] ]

\* Cache::new called at instant t.
New(t) == Fmt(EmptyCache, t)

\* add_dns_provider without its second call of fmt.
AddDnsProviderUnformatted(c, id, api_key, secret_api_key, t1, t2) ==
    [Fmt(c, t1) EXCEPT !.data.dns_providers =
        Append(@, DNSProvider(id, api_key, secret_api_key))]

\* add_dns_provider that inserts the provider at the front of the list.
AddDnsProviderAtFront(c, id, api_key, secret_api_key, t1, t2) ==
    Fmt([Fmt(c, t1) EXCEPT !.data.dns_providers =
            <<DNSProvider(id, api_key, secret_api_key)>> \o @], t2)

\* Cache::add_dns_provider, its two calls of fmt at instants t1 and t2.
AddDnsProviderTo(c, id, api_key, secret_api_key, t1, t2) ==
    LET formatted == Fmt(c, t1)
        pushed == [formatted EXCEPT !.data.dns_providers =
                      Append(@, DNSProvider(id, api_key, secret_api_key))]
    IN  Fmt(pushed, t2)

\* remove_dns_provider with the test of its closure inverted.
RemoveDnsProviderInverted(c, id, t1, t2) ==
    Fmt([Fmt(c, t1) EXCEPT !.data.dns_providers =
            SelectSeq(@, LAMBDA provider : provider.id = id)], t2)

\* remove_dns_provider that leaves the retained providers in reverse order.
RemoveDnsProviderReversing(c, id, t1, t2) ==
    Fmt([Fmt(c, t1) EXCEPT !.data.dns_providers =
            Reverse(SelectSeq(@, LAMBDA provider : provider.id # id))], t2)

\* Cache::remove_dns_provider, its two calls of fmt at instants t1 and t2.
RemoveDnsProviderFrom(c, id, t1, t2) ==
    LET formatted == Fmt(c, t1)
        retained == [formatted EXCEPT !.data.dns_providers =
                        SelectSeq(@, LAMBDA provider : provider.id # id)]
    IN  Fmt(retained, t2)

(***************************************************************************)
(* The cache file: serde_json and std::fs.                                 *)
(*                                                                         *)
(* A text is [kind |-> "garbage"] (not JSON, or a JSON value that is no    *)
(* object) or [kind |-> "object", members |-> r], a JSON object whose      *)
(* members are the fields of the record r.                                 *)
(***************************************************************************)
NoFile == [kind |-> "absent"]

Garbage == [kind |-> "garbage"]

JsonObject(members) == [kind |-> "object", members |-> members]

MetadataFields == {"warning", "name", "version", "description", "homepage", "timestamp"}

DataFields == {"ipv4_address", "ipv6_address", "dns_providers"}

\* to_string that writes the providers last first.
ToJsonStringProvidersReversed(c) ==
    JsonObject([ METADATA |-> c.metadata,
                 DATA |-> [c.data EXCEPT !.dns_providers = Reverse(@)] ])

\* serde_json::to_string(self): the fields of Cache are renamed METADATA and
\* DATA; the nested structs keep their field names.
ToJsonString(c) == JsonObject([METADATA |-> c.metadata, DATA |-> c.data])

\* serde_json::from_str::<Cache> is Ok: a JSON object that holds every field
\* of the struct (no field has a default); other members are ignored.
FromJsonStrOk(text) ==
    /\ text.kind = "object"
    /\ {"METADATA", "DATA"} \subseteq DOMAIN text.members
    /\ MetadataFields \subseteq DOMAIN text.members.METADATA
    /\ DataFields \subseteq DOMAIN text.members.DATA

\* from_str followed by fmt (at instant 0).
FromJsonStrFormatted(text) ==
    Fmt([ metadata |-> [f \in MetadataFields |-> text.members.METADATA[f]],
          data |-> [f \in DataFields |-> text.members.DATA[f]] ], 0)

\* The Cache that serde_json::from_str builds when it is Ok.
FromJsonStr(text) ==
    [ metadata |-> [f \in MetadataFields |-> text.members.METADATA[f]],
      data |-> [f \in DataFields |-> text.members.DATA[f]] ]

(***************************************************************************)
(* Inputs of the model.                                                    *)
(***************************************************************************)
\* Provider ids given to add_dns_provider and remove_dns_provider: two
\* recognized ids and one that is not.
Ids == {"cloudflare", "namesilo", "some_random_name"}

\* The recognized ids given to add_dns_provider in SpecAdd.
AddIds == {"cloudflare", "namesilo", "bluehost"}

\* Pairs of api_key and secret_api_key given to add_dns_provider.
KeyPairs == {<<"k1", "s1">>, <<"k2", "s2">>}

\* The inputs of the operations of the whole life cycle (Spec).
LifeIds == {"cloudflare", "bluehost"}

LifeKeyPairs == {<<"k1", "s1">>}

\* The local clock read at or after instant t (it is taken not to run backwards).
Later(t) == t..MaxTime

\* A metadata block that fmt did not write.
TamperedMetadata ==
    [ warning |-> "", name |-> "tampered", version |-> "0.0.0",
      description |-> "", homepage |-> "", timestamp |-> <<>> ]

\* A cache file that was edited by hand: an invalid IPv4 address, an id that
\* is not recognized and an id that appears twice.
TamperedCache ==
    [ metadata |-> TamperedMetadata,
      data |-> [ ipv4_address |-> NotAnIp,
                 ipv6_address |-> <<":", ":", "1">>,
                 dns_providers |-> << DNSProvider("cloudflare", "k1", "s1"),
                                      DNSProvider("some_random_name", "k1", "s1"),
                                      DNSProvider("cloudflare", "k2", "s2") >> ] ]

\* A cache that an earlier run saved at instant 0.
SavedCache ==
    AddDnsProviderTo(AddDnsProviderTo(New(0), "namesilo", "k2", "s2", 0, 0),
                     "cloudflare", "k1", "s1", 0, 0)

\* The texts that the cache file may hold when the program starts.
InitialFiles ==
    { Garbage,
      JsonObject([k \in {} |-> k]),
      JsonObject([METADATA |-> FmtMetadata(0)]),
      JsonObject([METADATA |-> FmtMetadata(0),
                  DATA |-> [ipv4_address |-> DefaultIpv4, ipv6_address |-> DefaultIpv6]]),
      ToJsonString(SavedCache),
      ToJsonString(TamperedCache),
      JsonObject([METADATA |-> TamperedMetadata, DATA |-> SavedCache.data, EXTRA |-> ""]) }

InitialFileSystems ==
    { [dir |-> FALSE, file |-> NoFile], [dir |-> TRUE, file |-> NoFile] }
        \cup { [dir |-> TRUE, file |-> f] : f \in InitialFiles }

(***************************************************************************)
(* The operations.                                                         *)
(***************************************************************************)
Call(op, id, api_key, secret_api_key) ==
    [op |-> op, id |-> id, api_key |-> api_key, secret_api_key |-> secret_api_key]

\* What last records of an operation: the call, what the operating system
\* did during it (env), its result ("Ok" or the tag of the Error::Cache
\* returned) and the state in which it was called.
Record(op, id, api_key, secret_api_key, env, result) ==
    [ op |-> op, id |-> id, api_key |-> api_key, secret_api_key |-> secret_api_key,
      env |-> env, result |-> result,
      cache |-> cache, origin |-> origin, fs |-> fs, now |-> now ]

\* History of the round trips.  trip.step counts the calls of an unbroken
\* run load, save, load, save in which every call was Ok (0: no such run is
\* in progress); trip.first is the text that the first save of the run wrote.
\* Any other call, and any call that fails, ends the run.
NoTrip == [step |-> 0, first |-> NoFile]

TripAfterLoad(tr, result) ==
    IF result # "Ok" THEN NoTrip
    ELSE IF tr.step = 2 THEN [tr EXCEPT !.step = 3]
    ELSE [step |-> 1, first |-> NoFile]

TripAfterSave(tr, result, text) ==
    IF result # "Ok" THEN NoTrip
    ELSE IF tr.step = 1 THEN [step |-> 2, first |-> text]
    ELSE IF tr.step = 3 THEN [tr EXCEPT !.step = 4]
    ELSE NoTrip

\* let mut cache = Cache::new();
NewCache ==
    \E t \in Later(now) :
        /\ cache' = New(t)
        /\ origin' = "new"
        /\ calls' = <<>>
        /\ now' = t
        /\ last' = Record("new", "", "", "", "ok", "Ok")
        /\ trip' = NoTrip
        /\ UNCHANGED fs

\* cache.fmt();
CallFmt ==
    \E t \in Later(now) :
        /\ cache' = Fmt(cache, t)
        /\ calls' = Append(calls, Call("fmt", "", "", ""))
        /\ now' = t
        /\ last' = Record("fmt", "", "", "", "ok", "Ok")
        /\ trip' = NoTrip
        /\ UNCHANGED <<origin, fs>>

\* cache.add_dns_provider(id, api_key, secret_api_key);
AddDnsProvider(id, api_key, secret_api_key) ==
    \E t1 \in Later(now) : \E t2 \in Later(t1) :
        /\ cache' = AddDnsProviderTo(cache, id, api_key, secret_api_key, t1, t2)
        /\ calls' = Append(calls, Call("add", id, api_key, secret_api_key))
        /\ now' = t2
        /\ last' = Record("add", id, api_key, secret_api_key, "ok", "Ok")
        /\ trip' = NoTrip
        /\ UNCHANGED <<origin, fs>>

\* cache.remove_dns_provider(id);
RemoveDnsProvider(id) ==
    \E t1 \in Later(now) : \E t2 \in Later(t1) :
        /\ cache' = RemoveDnsProviderFrom(cache, id, t1, t2)
        /\ calls' = Append(calls, Call("remove", id, "", ""))
        /\ now' = t2
        /\ last' = Record("remove", id, "", "", "ok", "Ok")
        /\ trip' = NoTrip
        /\ UNCHANGED <<origin, fs>>

\* What the operating system may do during Cache::load: give no home
\* directory (get_path is None), fail read_to_string of an existing file, or
\* neither.
LoadEnvs == {"no_home", "read_error", "ok"}

\* LoadResult with the tag of save on a text that is not deserialized.
LoadResultSaveTag(f, env) ==
    IF env = "no_home" THEN "locate"
    ELSE IF f.file = NoFile \/ env = "read_error" THEN "load"
    ELSE IF ~FromJsonStrOk(f.file) THEN "save"
    ELSE "Ok"

\* The result of Cache::load in the file system f.
LoadResult(f, env) ==
    IF env = "no_home" THEN "locate"
    ELSE IF f.file = NoFile \/ env = "read_error" THEN "load"
    ELSE IF ~FromJsonStrOk(f.file) THEN "load"
    ELSE "Ok"

\* Cache::load that first creates the directory and a file holding {} when
\* the file is missing.
LoadWithBootstrap(env) ==
    LET f == IF env = "no_home" \/ fs.file # NoFile THEN fs
             ELSE [dir |-> TRUE, file |-> JsonObject([k \in {} |-> k])]
    IN  /\ last' = Record("load", "", "", "", env, LoadResult(f, env))
        /\ trip' = TripAfterLoad(trip, LoadResult(f, env))
        /\ fs' = f
        /\ IF LoadResult(f, env) = "Ok"
           THEN /\ cache' = FromJsonStr(f.file)
                /\ origin' = "load"
                /\ calls' = <<>>
           ELSE UNCHANGED <<cache, origin, calls>>
        /\ UNCHANGED now

\* let cache = Cache::load()?;  On an error the caller keeps what it holds.
Load(env) ==
    /\ last' = Record("load", "", "", "", env, LoadResult(fs, env))
    /\ trip' = TripAfterLoad(trip, LoadResult(fs, env))
    /\ IF LoadResult(fs, env) = "Ok"
       THEN /\ cache' = FromJsonStr(fs.file)
            /\ origin' = "load"
            /\ calls' = <<>>
       ELSE UNCHANGED <<cache, origin, calls>>
    /\ UNCHANGED <<fs, now>>

\* What the operating system may do during Cache::save: give no home
\* directory, fail to create a missing directory (create_dir_all), fail to
\* create or truncate the file (File::create in std::fs::write), fail while
\* writing into the truncated file (write_all in std::fs::write), or none.
\* "serialize_error" is the Err of serde_json::to_string, which line 188
\* handles.
SaveEnvs ==
    {"no_home", "dir_error", "serialize_error", "create_error", "write_error", "ok"}

\* The result of Cache::save in the file system f.
SaveResult(f, env) ==
    IF env = "no_home" THEN "locate"
    ELSE IF ~f.dir /\ env = "dir_error" THEN "locate"
    ELSE IF env \in {"serialize_error", "create_error", "write_error"} THEN "save"
    ELSE "Ok"

\* save that creates the directory before it asks for the home directory.
SaveFileSystemDirFirst(f, c, env) ==
    IF env = "no_home" THEN [dir |-> TRUE, file |-> f.file]
    ELSE IF ~f.dir /\ env = "dir_error" THEN f
    ELSE [ dir |-> TRUE,
           file |-> CASE env = "serialize_error" -> f.file
                      [] env = "create_error" -> f.file
                      [] env = "write_error" -> Garbage
                      [] OTHER -> ToJsonString(c) ]

\* save that creates (truncates) the file before it serializes the Cache.
SaveFileSystemWriteFirst(f, c, env) ==
    IF env = "no_home" \/ (~f.dir /\ env = "dir_error") THEN f
    ELSE [ dir |-> TRUE,
           file |-> CASE env = "serialize_error" -> Garbage
                      [] env = "create_error" -> f.file
                      [] env = "write_error" -> Garbage
                      [] OTHER -> ToJsonString(c) ]

\* The file system after Cache::save of c in the file system f: the directory
\* is created first, the Cache is serialized next and the text is written
\* last.  A write_all that fails leaves a truncated text, which is not the
\* JSON object.
SaveFileSystem(f, c, env) ==
    IF env = "no_home" \/ (~f.dir /\ env = "dir_error") THEN f
    ELSE [ dir |-> TRUE,
           file |-> CASE env = "serialize_error" -> f.file
                      [] env = "create_error" -> f.file
                      [] env = "write_error" -> Garbage
                      [] OTHER -> ToJsonString(c) ]

\* save that calls fmt before it serializes the Cache.
SaveWithFmt(env) ==
    /\ fs' = SaveFileSystem(fs, Fmt(cache, now), env)
    /\ cache' = Fmt(cache, now)
    /\ calls' = Append(calls, Call("save", "", "", ""))
    /\ last' = Record("save", "", "", "", env, SaveResult(fs, env))
    /\ trip' = TripAfterSave(trip, SaveResult(fs, env), SaveFileSystem(fs, cache, env).file)
    /\ UNCHANGED <<origin, now>>

\* cache.save()
Save(env) ==
    /\ fs' = SaveFileSystem(fs, cache, env)
    /\ calls' = Append(calls, Call("save", "", "", ""))
    /\ last' = Record("save", "", "", "", env, SaveResult(fs, env))
    /\ trip' = TripAfterSave(trip, SaveResult(fs, env), SaveFileSystem(fs, cache, env).file)
    /\ UNCHANGED <<cache, origin, now>>

(***************************************************************************)
(* Spec: the whole life cycle, from Cache::new() and any initial file.     *)
(***************************************************************************)
NoCall ==
    [ op |-> "none", id |-> "", api_key |-> "", secret_api_key |-> "",
      env |-> "ok", result |-> "Ok",
      cache |-> EmptyCache, origin |-> "new",
      fs |-> [dir |-> FALSE, file |-> NoFile], now |-> 0 ]

Init ==
    /\ now = 0
    /\ cache = New(0)
    /\ origin = "new"
    /\ calls = <<>>
    /\ fs \in InitialFileSystems
    /\ last = NoCall
    /\ trip = NoTrip

Next ==
    \/ NewCache
    \/ \E env \in LoadEnvs : Load(env)
    \/ /\ Len(calls) < MaxLifeCalls
       /\ \E kp \in LifeKeyPairs : AddDnsProvider("cloudflare", kp[1], kp[2])
    \/ /\ Len(calls) < MaxLifeCalls
       /\ \E id \in LifeIds : RemoveDnsProvider(id)
    \/ /\ Len(calls) < MaxLifeCalls
       /\ \E env \in SaveEnvs : Save(env)
    \/ /\ Len(calls) < MaxLifeCalls
       /\ CallFmt

Spec == Init /\ [][Next]_vars

(***************************************************************************)
(* SpecMut: Cache::new() followed by calls of add_dns_provider and         *)
(* remove_dns_provider only.                                               *)
(***************************************************************************)
InitMut ==
    /\ now = 0
    /\ cache = New(0)
    /\ origin = "new"
    /\ calls = <<>>
    /\ fs = [dir |-> FALSE, file |-> NoFile]
    /\ last = NoCall
    /\ trip = NoTrip

NextMut ==
    \/ /\ Len(calls) < MaxCalls
       /\ \E id \in Ids : \E kp \in KeyPairs : AddDnsProvider(id, kp[1], kp[2])
    \/ /\ Len(calls) < MaxCalls
       /\ \E id \in Ids : RemoveDnsProvider(id)

SpecMut == InitMut /\ [][NextMut]_vars

(***************************************************************************)
(* SpecAdd: Cache::new() followed by calls of add_dns_provider with        *)
(* recognized ids, as in the first part of test_cache.                     *)
(***************************************************************************)
NextAdd ==
    /\ Len(calls) < MaxAdds
    /\ \E id \in AddIds : \E kp \in KeyPairs : AddDnsProvider(id, kp[1], kp[2])

SpecAdd == InitMut /\ [][NextAdd]_vars

(***************************************************************************)
(* SpecFmt: fmt called on a given Cache, whatever its fields hold.         *)
(***************************************************************************)
GivenProviders == { DNSProvider(id, kp[1], kp[2]) : id \in Ids, kp \in KeyPairs }

SeqsUpTo(S, n) == UNION { [1..k -> S] : k \in 0..n }

CacheOf(metadata, ipv4_address, ipv6_address, dns_providers) ==
    [ metadata |-> metadata,
      data |-> [ ipv4_address |-> ipv4_address, ipv6_address |-> ipv6_address,
                 dns_providers |-> dns_providers ] ]

\* Every pair of address strings with two provider lists, and every provider
\* list with two pairs of address strings.
GivenCaches ==
    { CacheOf(m, a4, a6, ps) :
        m \in {TamperedMetadata, FmtMetadata(0)},
        a4 \in Ipv4Strings, a6 \in Ipv6Strings,
        ps \in {<<>>, TamperedCache.data.dns_providers} }
    \cup
    { CacheOf(TamperedMetadata, a[1], a[2], ps) :
        a \in {<<DefaultIpv4, DefaultIpv6>>, <<NotAnIp, NotAnIp>>},
        ps \in SeqsUpTo(GivenProviders, MaxLen) }

InitFmt ==
    /\ now = 0
    /\ cache \in GivenCaches
    /\ origin = "given"
    /\ calls = <<>>
    /\ fs = [dir |-> FALSE, file |-> NoFile]
    /\ last = NoCall
    /\ trip = NoTrip

NextFmt == Len(calls) < MaxCalls /\ CallFmt

SpecFmt == InitFmt /\ [][NextFmt]_vars

(***************************************************************************)
(* SpecGiven: add_dns_provider and remove_dns_provider called on a given   *)
(* Cache, whatever its addresses hold (a Cache gets addresses other than   *)
(* the defaults from a cache file only).                                   *)
(***************************************************************************)
GivenAddresses ==
    { CacheOf(FmtMetadata(0), a4, a6, <<DNSProvider("cloudflare", "k1", "s1")>>) :
        a4 \in Ipv4Strings, a6 \in Ipv6Strings }

InitGiven ==
    /\ now = 0
    /\ cache \in GivenAddresses
    /\ origin = "given"
    /\ calls = <<>>
    /\ fs = [dir |-> FALSE, file |-> NoFile]
    /\ last = NoCall
    /\ trip = NoTrip

NextGiven ==
    \/ /\ Len(calls) < MaxGivenCalls
       /\ \E id \in Ids : \E kp \in KeyPairs : AddDnsProvider(id, kp[1], kp[2])
    \/ /\ Len(calls) < MaxGivenCalls
       /\ \E id \in Ids : RemoveDnsProvider(id)

SpecGiven == InitGiven /\ [][NextGiven]_vars

(***************************************************************************)
(* Vocabulary of the properties.                                           *)
(***************************************************************************)
Providers == cache.data.dns_providers

ProvidersBefore == last.cache.data.dns_providers

IdsIn(ps) == { ps[i].id : i \in 1..Len(ps) }

\* No id outside the whitelist and no id twice.
IsNormalizedList(ps) ==
    /\ \A i \in 1..Len(ps) : ps[i].id \in Whitelist
    /\ \A i, j \in 1..Len(ps) : i # j => ps[i].id # ps[j].id

\* The entries of ps at the indices of I, in their order in ps.
RECURSIVE Restricted(_, _, _)
Restricted(ps, I, i) ==
    IF i > Len(ps) THEN <<>>
    ELSE (IF i \in I THEN <<ps[i]>> ELSE <<>>) \o Restricted(ps, I, i + 1)

\* The indices of the entries of ps whose id is whitelisted and that are the
\* last occurrence of their id.
LastOccurrences(ps) ==
    { i \in 1..Len(ps) :
        /\ ps[i].id \in Whitelist
        /\ \A j \in (i + 1)..Len(ps) : ps[j].id # ps[i].id }

\* ps restricted to the last occurrence of each whitelisted id.
LastOfEachId(ps) == Restricted(ps, LastOccurrences(ps), 1)

\* ps without the entries of id.
WithoutId(ps, id) == Restricted(ps, { i \in 1..Len(ps) : ps[i].id # id }, 1)

(***************************************************************************)
(* C1.  In every state reached from Cache::new() by calls of               *)
(* add_dns_provider and remove_dns_provider, with recognized and           *)
(* unrecognized ids, the provider list holds no id outside the whitelist   *)
(* of 18 ids and holds each whitelisted id at most once.  (SpecMut)        *)
(***************************************************************************)
C1_ListStaysNormalized ==
    /\ Cardinality(Whitelist) = 18
    /\ IsNormalizedList(Providers)

\* An unrecognized id was added and a recognized id was added twice, and
\* the list is not empty.
C1_Witness ==
    /\ Providers # <<>>
    /\ \E i \in 1..Len(calls) : calls[i].op = "add" /\ calls[i].id \notin Whitelist
    /\ \E i, j \in 1..Len(calls) :
          /\ i < j
          /\ calls[i].op = "add" /\ calls[j].op = "add"
          /\ calls[i].id = calls[j].id /\ calls[i].id \in Whitelist

(***************************************************************************)
(* C2.  After fmt on any provider list, the list is the list before        *)
(* restricted to the entries whose id is whitelisted and that are the last *)
(* occurrence of their id, in their order, each with its api_key and       *)
(* secret_api_key.  (SpecFmt)                                              *)
(***************************************************************************)
C2_FmtKeepsLastOfEachId ==
    last.op = "fmt" => Providers = LastOfEachId(ProvidersBefore)

\* fmt was called on a list of three entries that held a whitelisted id
\* twice, with different keys, and an id that is not whitelisted.
C2_Witness ==
    /\ last.op = "fmt"
    /\ Len(ProvidersBefore) = 3
    /\ \E i \in 1..3 : ProvidersBefore[i].id \notin Whitelist
    /\ \E i, j \in 1..3 :
          /\ i < j
          /\ ProvidersBefore[i].id = ProvidersBefore[j].id
          /\ ProvidersBefore[i].id \in Whitelist
          /\ ProvidersBefore[i].api_key # ProvidersBefore[j].api_key
    /\ Len(Providers) = 1

(***************************************************************************)
(* C3.  add_dns_provider(id, k1, s1) followed at once by                   *)
(* add_dns_provider(id, k2, s2), with a whitelisted id and different keys, *)
(* leaves exactly one provider of that id in the list, and it holds k2 and *)
(* s2.  (SpecMut)                                                          *)
(***************************************************************************)
TwoAddsOfOneId ==
    LET n == Len(calls)
    IN  /\ n >= 2
        /\ calls[n - 1].op = "add" /\ calls[n].op = "add"
        /\ calls[n - 1].id = calls[n].id
        /\ calls[n].id \in Whitelist
        /\ <<calls[n - 1].api_key, calls[n - 1].secret_api_key>>
              # <<calls[n].api_key, calls[n].secret_api_key>>

C3_SecondAddSupersedes ==
    TwoAddsOfOneId =>
        LET second == calls[Len(calls)]
            found == { i \in 1..Len(Providers) : Providers[i].id = second.id }
        IN  /\ Cardinality(found) = 1
            /\ \A i \in found :
                  /\ Providers[i].api_key = second.api_key
                  /\ Providers[i].secret_api_key = second.secret_api_key

\* The two calls were made on a list that held another provider.
C3_Witness ==
    /\ TwoAddsOfOneId
    /\ Len(Providers) = 2

(***************************************************************************)
(* C4.  As claimed: when the cache file exists but its text is not         *)
(* deserialized as a Cache, load returns no error but a default,           *)
(* normalized Cache.  The code returns the error instead.                  *)
(*                                                                         *)
(* C4 as amended: when the cache file exists and is read but its text is   *)
(* not deserialized as a Cache, load returns an error tagged "load"; no    *)
(* Cache is built (the caller keeps what it holds) and the file is left    *)
(* as it is.  (Spec)                                                       *)
(***************************************************************************)
LoadOfCorruptFile ==
    /\ last.op = "load"
    /\ last.env = "ok"
    /\ last.fs.file # NoFile
    /\ ~FromJsonStrOk(last.fs.file)

C4_AsClaimed ==
    LoadOfCorruptFile =>
        /\ last.result = "Ok"
        /\ cache.data = [ ipv4_address |-> <<"0", ".", "0", ".", "0", ".", "0">>,
                          ipv6_address |-> DefaultIpv6,
                          dns_providers |-> <<>> ]
        /\ cache.metadata = FmtMetadata(now)

C4_CorruptFileIsAnError ==
    LoadOfCorruptFile =>
        /\ last.result = "load"
        /\ cache = last.cache
        /\ origin = last.origin
        /\ fs = last.fs

\* load failed on a text that is not a Cache while the caller held a Cache
\* with a provider, which it still holds.
C4_Witness ==
    /\ LoadOfCorruptFile
    /\ last.result = "load"
    /\ Providers # <<>>

(***************************************************************************)
(* C5.  As claimed: every Cache returned by a successful load is           *)
(* normalized: valid addresses ("not-an-ip" in the file is returned as     *)
(* "0.0.0.0"), no unrecognized and no repeated id, the fixed metadata and  *)
(* a timestamp taken at load time.  The code does not call fmt in load.    *)
(*                                                                         *)
(* C5 as amended: every Cache returned by a successful load holds, field   *)
(* by field, what the file held, not normalized: the addresses (a file     *)
(* value of "not-an-ip" is returned as "not-an-ip"), the provider list     *)
(* with its unrecognized and repeated ids, and the metadata with the       *)
(* timestamp of the file.  (Spec)                                          *)
(***************************************************************************)
LoadSucceeded == last.op = "load" /\ last.result = "Ok"

C5_AsClaimed ==
    LoadSucceeded =>
        /\ IsValidIpv4(cache.data.ipv4_address)
        /\ last.fs.file.members.DATA.ipv4_address = NotAnIp
              => cache.data.ipv4_address = <<"0", ".", "0", ".", "0", ".", "0">>
        /\ IsValidIpv6(cache.data.ipv6_address)
        /\ IsNormalizedList(Providers)
        /\ cache.metadata = FmtMetadata(now)

C5_LoadReturnsTheFile ==
    LoadSucceeded =>
        /\ DOMAIN cache.metadata = MetadataFields
        /\ DOMAIN cache.data = DataFields
        /\ \A f \in MetadataFields :
              cache.metadata[f] = last.fs.file.members.METADATA[f]
        /\ \A f \in DataFields : cache.data[f] = last.fs.file.members.DATA[f]
        /\ last.fs.file.members.DATA.ipv4_address = NotAnIp
              => cache.data.ipv4_address = NotAnIp

\* A file edited by hand was loaded at instant 1: the Cache returned holds
\* "not-an-ip", a list that is not normalized and metadata that fmt did not
\* write.
C5_Witness ==
    /\ LoadSucceeded
    /\ now = 1
    /\ cache.data.ipv4_address = NotAnIp
    /\ ~IsNormalizedList(Providers)
    /\ cache.metadata.name = "tampered"

(***************************************************************************)
(* C6.  fmt is idempotent but for the timestamp: after two calls of fmt in *)
(* a row, every field other than metadata.timestamp is what it was after   *)
(* the first call.  (SpecFmt)                                              *)
(***************************************************************************)
Untimed(c) == [c EXCEPT !.metadata.timestamp = <<>>]

TwoCallsOfFmt ==
    LET n == Len(calls)
    IN  n >= 2 /\ calls[n - 1].op = "fmt" /\ calls[n].op = "fmt"

C6_FmtIsIdempotent == TwoCallsOfFmt => Untimed(cache) = Untimed(last.cache)

\* The second call was made at a later instant on a list of two providers.
C6_Witness ==
    /\ TwoCallsOfFmt
    /\ Len(Providers) >= 2
    /\ cache.metadata.timestamp # last.cache.metadata.timestamp

(***************************************************************************)
(* C7.  fmt leaves ipv4_address as it is when it parses as an IPv4 address *)
(* and sets it to "0.0.0.0" otherwise, and leaves ipv6_address as it is    *)
(* when it parses as an IPv6 address and sets it to "0:0:0:0:0:0:0:0"      *)
(* otherwise; after fmt both addresses are valid.  (SpecFmt)               *)
(***************************************************************************)
C7_FmtRepairsAddresses ==
    last.op = "fmt" =>
        /\ cache.data.ipv4_address =
              IF IsValidIpv4(last.cache.data.ipv4_address)
              THEN last.cache.data.ipv4_address
              ELSE <<"0", ".", "0", ".", "0", ".", "0">>
        /\ cache.data.ipv6_address =
              IF IsValidIpv6(last.cache.data.ipv6_address)
              THEN last.cache.data.ipv6_address
              ELSE <<"0", ":", "0", ":", "0", ":", "0", ":", "0", ":", "0", ":", "0", ":", "0">>
        /\ IsValidIpv4(cache.data.ipv4_address)
        /\ IsValidIpv6(cache.data.ipv6_address)

\* fmt was called with a valid IPv4 address other than the default, which it
\* kept, and an invalid IPv6 address, which it replaced.
C7_Witness ==
    /\ last.op = "fmt"
    /\ IsValidIpv4(last.cache.data.ipv4_address)
    /\ cache.data.ipv4_address # DefaultIpv4
    /\ ~IsValidIpv6(last.cache.data.ipv6_address)
    /\ cache.data.ipv6_address = DefaultIpv6

(***************************************************************************)
(* C8.  As claimed: for any Cache and any id that matches no entry of its  *)
(* provider list, remove_dns_provider(id) leaves the list as it is.  A     *)
(* loaded Cache may hold a list that is not normalized, which the calls of *)
(* fmt in remove_dns_provider change.                                      *)
(*                                                                         *)
(* C8 as amended: for any Cache whose provider list is normalized (no      *)
(* unrecognized id, no id twice) and any id that matches no entry of it,   *)
(* remove_dns_provider(id) leaves the list as it is, in content and in     *)
(* order.  (Spec)                                                          *)
(***************************************************************************)
RemoveOfAbsentId ==
    /\ last.op = "remove"
    /\ last.id \notin IdsIn(ProvidersBefore)

IsScenario ==
    /\ Len(calls) = 4
    /\ \A i \in 1..4 : calls[i].op = "add"
    /\ calls[1].id = "cloudflare"
    /\ calls[2].id = "namesilo"
    /\ calls[3].id = "bluehost"
    /\ calls[4].id = "cloudflare"

C9_AddedEntryIsLast ==
    /\ last.op = "add" /\ last.id \in Whitelist =>
          Providers = WithoutId(LastOfEachId(ProvidersBefore), last.id)
                          \o <<DNSProvider(last.id, last.api_key, last.secret_api_key)>>
    /\ IsScenario =>
          Providers =
              << DNSProvider("namesilo", calls[2].api_key, calls[2].secret_api_key),
                 DNSProvider("bluehost", calls[3].api_key, calls[3].secret_api_key),
                 DNSProvider("cloudflare", calls[4].api_key, calls[4].secret_api_key) >>

\* The scenario was run with different keys in the two calls for cloudflare.
C9_Witness ==
    /\ IsScenario
    /\ calls[1].api_key # calls[4].api_key
    /\ calls[1].secret_api_key # calls[4].secret_api_key

(***************************************************************************)
(* C10.  As claimed: load never fails because the cache file is missing;   *)
(* it first creates the directories and a file that holds {} and returns   *)
(* a Cache.  The code reads the file without creating it.                  *)
(*                                                                         *)
(* C10 as amended: when the path resolves but the file does not exist,     *)
(* load returns an error tagged "load" and creates neither a directory nor *)
(* a file; no call of load changes the directory or the text of the file.  *)
(* (Spec)                                                                  *)
(***************************************************************************)
LoadOfMissingFile ==
    /\ last.op = "load"
    /\ last.env = "ok"
    /\ last.fs.file = NoFile

C10_AsClaimed ==
    LoadOfMissingFile =>
        /\ last.result = "Ok"
        /\ fs.dir
        /\ fs.file = JsonObject([k \in {} |-> k])

C10_MissingFileIsAnError ==
    /\ last.op = "load" => fs = last.fs
    /\ LoadOfMissingFile =>
          /\ last.result = "load"
          /\ cache = last.cache
          /\ origin = last.origin

\* load was called when neither the directory nor the file existed.
C10_Witness ==
    /\ LoadOfMissingFile
    /\ ~last.fs.dir
    /\ last.result = "load"

(***************************************************************************)
(* C11.  Round trip: when load and then save are called twice in a row on  *)
(* the cache file, with no other call in between and every call Ok, the    *)
(* text that the second save writes differs from the text that the first   *)
(* save wrote in METADATA.timestamp at most: the other metadata, the two   *)
(* addresses and the provider list, in content and in order, are the       *)
(* same.  (Spec)                                                           *)
(***************************************************************************)
RoundTripTwice == trip.step = 4

UntimedText(text) == [text EXCEPT !.members.METADATA.timestamp = <<>>]

NoHomeDirectory ==
    /\ last.op \in {"load", "save"}
    /\ last.env = "no_home"

C12_NoHomeIsALocateError ==
    NoHomeDirectory =>
        /\ last.result = "locate"
        /\ fs = last.fs
        /\ cache = last.cache
        /\ origin = last.origin

\* save was called without a home directory when the wapi directory did not
\* exist, on a Cache that holds a provider.
C12_Witness ==
    /\ NoHomeDirectory
    /\ last.op = "save"
    /\ ~last.fs.dir
    /\ Providers # <<>>
    /\ last.result = "locate"

(***************************************************************************)
(* C13.  save serializes the Cache before it writes to the cache file:     *)
(* when serde_json::to_string fails, save returns an error (tagged "save") *)
(* and the file holds what it held; when save is Ok, the file holds        *)
(* exactly the serialization of the Cache, with the two members METADATA   *)
(* and DATA and nothing of the text it held before.  (Spec)                *)
(***************************************************************************)
C13_SaveSerializesThenWrites ==
    last.op = "save" =>
        /\ last.env = "serialize_error" =>
              /\ last.result = "save"
              /\ fs.file = last.fs.file
        /\ last.result = "Ok" =>
              /\ fs.file.kind = "object"
              /\ DOMAIN fs.file.members = {"METADATA", "DATA"}
              /\ fs.file.members.METADATA = last.cache.metadata
              /\ fs.file.members.DATA = last.cache.data

\* save was Ok on a file that held a member EXTRA and other providers than
\* those of the Cache.
C13_Witness ==
    /\ last.op = "save"
    /\ last.result = "Ok"
    /\ last.fs.file.kind = "object"
    /\ "EXTRA" \in DOMAIN last.fs.file.members
    /\ last.fs.file.members.DATA.dns_providers # Providers

(***************************************************************************)
(* C14.  For any Cache reached from Cache::new() by calls of               *)
(* add_dns_provider and remove_dns_provider and any id, after              *)
(* remove_dns_provider(id) no provider of that id remains and the list is  *)
(* the list before the call without the providers of id: every other       *)
(* provider is kept with its keys, in the same order.  (SpecMut)           *)
(***************************************************************************)
C14_RemoveDeletesOnlyTheId ==
    last.op = "remove" =>
        /\ last.id \notin IdsIn(Providers)
        /\ Providers = WithoutId(ProvidersBefore, last.id)

\* The first of two providers was removed.
C14_Witness ==
    /\ last.op = "remove"
    /\ Len(ProvidersBefore) = 2
    /\ ProvidersBefore[1].id = last.id
    /\ Providers = <<ProvidersBefore[2]>>

(***************************************************************************)
(* C15.  For any Cache reached from Cache::new() by calls of               *)
(* add_dns_provider and remove_dns_provider, add_dns_provider with an id   *)
(* that is not in the whitelist leaves the provider list as it was, in     *)
(* content and in order: the provider pushed is dropped by the second call *)
(* of fmt and no other provider is dropped or moved.  (SpecMut)            *)
(***************************************************************************)
AddOfUnrecognizedId ==
    /\ last.op = "add"
    /\ last.id \notin Whitelist

C15_UnrecognizedAddKeepsList == AddOfUnrecognizedId => Providers = ProvidersBefore

\* An unrecognized id was added to a list of two providers.
C15_Witness ==
    /\ AddOfUnrecognizedId
    /\ Len(ProvidersBefore) = 2
    /\ Len(Providers) = 2

(***************************************************************************)
(* C16.  Every call of fmt, and so Cache::new and every call of            *)
(* add_dns_provider and remove_dns_provider, writes the fixed warning,     *)
(* name "wapi-cache", version of the program, description "The cache file  *)
(* for the Wapi client." and homepage "https://github.com/AmonRayfa/wapi"  *)
(* over whatever the metadata held, and sets the timestamp to the instant  *)
(* of the call.  (Spec)                                                    *)
(***************************************************************************)
CalledFmt == last.op \in {"fmt", "new", "add", "remove"}

C16_FmtWritesFixedMetadata ==
    CalledFmt =>
        /\ cache.metadata.warning = "THIS FILE IS AUTO-GENERATED. DO NOT EDIT MANUALLY. IF THE FILE IS TAMPERED WITH, IT WILL BE OVERWRITTEN WITH DEFAULT DATA, AND ALL PREVIOUS DATA WILL BE LOST."
        /\ cache.metadata.name = "wapi-cache"
        /\ cache.metadata.version = "CARGO_PKG_VERSION"
        /\ cache.metadata.description = "The cache file for the Wapi client."
        /\ cache.metadata.homepage = "https://github.com/AmonRayfa/wapi"
        /\ cache.metadata.timestamp = <<now>>
        /\ DOMAIN cache.metadata = MetadataFields

\* fmt was called at instant 1 on a Cache loaded from a file edited by hand,
\* whose metadata fmt did not write.
C16_Witness ==
    /\ last.op = "fmt"
    /\ last.cache.metadata = TamperedMetadata
    /\ last.now = 0
    /\ now = 1

(***************************************************************************)
(* C17.  add_dns_provider and remove_dns_provider do not change a valid    *)
(* address: when ipv4_address (ipv6_address) parses as an IPv4 (IPv6)      *)
(* address before the call, it is the same string after the call, for      *)
(* every id and keys.  (SpecGiven)                                         *)
(***************************************************************************)
CalledAddOrRemove == last.op \in {"add", "remove"}

C17_ValidAddressesAreKept ==
    CalledAddOrRemove =>
        /\ IsValidIpv4(last.cache.data.ipv4_address)
              => cache.data.ipv4_address = last.cache.data.ipv4_address
        /\ IsValidIpv6(last.cache.data.ipv6_address)
              => cache.data.ipv6_address = last.cache.data.ipv6_address

\* add_dns_provider was called on a Cache whose two addresses are valid and
\* are not the defaults.
C17_Witness ==
    /\ last.op = "add"
    /\ IsValidIpv4(last.cache.data.ipv4_address)
    /\ IsValidIpv6(last.cache.data.ipv6_address)
    /\ cache.data.ipv4_address # DefaultIpv4
    /\ cache.data.ipv6_address # DefaultIpv6

(***************************************************************************)
(* C18.  save leaves the Cache that the caller holds as it is, in every    *)
(* field (the metadata with its timestamp, the addresses, the provider     *)
(* list), whether it is Ok or an error; the Cache can be saved again.      *)
(* (Spec)                                                                  *)
(***************************************************************************)
C18_SaveKeepsTheCache ==
    last.op = "save" =>
        /\ cache = last.cache
        /\ origin = last.origin

\* A Cache loaded from a file edited by hand was saved twice, the second
\* time Ok, and still holds the list that is not normalized.
C18_Witness ==
    /\ last.op = "save"
    /\ last.result = "Ok"
    /\ Len(calls) = 2
    /\ calls[1].op = "save"
    /\ ~IsNormalizedList(Providers)
====
